---- MODULE Spec2Model ----
(***************************************************************************)
(* ArduinoExtra: aex::Vector<T> (src/ArduinoExtra/Vector.h) and            *)
(* aex::Function<R(Args...)> (src/ArduinoExtra/Functional.h).              *)
(*                                                                         *)
(* The vector is modelled on an explicit heap of storage blocks.  Every    *)
(* slot of a block carries the value stored in it and a lifetime status,   *)
(* so that what operator[] returns is what the code has written there and  *)
(* nothing else: raw and destroyed slots hold Junk.                        *)
(* C index i is slot i + 1 of the block (TLA+ sequences start at 1).       *)
(***************************************************************************)
EXTENDS Integers, Sequences, FiniteSets, TLC

\* ------------------------------------------------------------------ bounds
\* pushBack is only issued while m_size < MaxSize
MaxSize == 6
\* Vector(size_t) is called with initialCapacity in 0..MaxInitCap
MaxInitCap == 3
\* operator[] is called with index in 0..MaxIndex
MaxIndex == 3
\* delete[] on a block takes an element count in 0..MaxCount
MaxCount == 2
\* a run of appends to one vector stops at MaxAppends elements
MaxAppends == 16
\* reAllocate is called directly while fewer than MaxBlocks blocks were allocated
MaxBlocks == 2
\* with two Vector objects, pushBack is only issued while m_size < MaxCopySize
MaxCopySize == 3

\* the element values pushed by the client
Values == {1, 2}

\* content of a slot no value has been stored in (raw storage from
\* ::operator new) or whose element has been destroyed: indeterminate
Junk == 0

\* ------------------------------------------------------------------ state
VARIABLES
    vstate,      \* lifetime of the Vector object: "none", "alive", "destroyed"
    built,       \* the constructor that made it: "none", "default", "capacity"
    heap,        \* storage blocks ever allocated; a pointer is an index, 0 is nullptr
    m_data,      \* Vector::m_data
    m_size,      \* Vector::m_size
    m_capacity,  \* Vector::m_capacity
    dtorLog,     \* destructor calls of the last operation, in order: <<block, index>>
    lastOp,      \* the last operation and its argument
    refList,     \* reference list: Append on pushBack, drop last on popBack, <<>> on clear
    signal,      \* the error condition the last operation surfaced to its caller, "none"
    ret,         \* the reference the last operator[] returned: <<block, index>>
    twin,        \* a second Vector object, made from the first by copy construction:
                 \* its lifetime st, its m_data, m_size, m_capacity, its reference list
    vfault       \* "none", or the undefined behaviour a Vector operation has run into

vecVars == <<vstate, built, heap, m_data, m_size, m_capacity, dtorLog, lastOp, refList,
             signal, ret, twin, vfault>>

\* aex::Function<R(Args...)> and the callables it owns
VARIABLES
    wrappers,    \* each Function object: its lifetime st and its m_callable (0 is nullptr)
    targets,     \* Callable objects ever allocated with new; a pointer is an index
    objects,     \* the client's ExampleClass objects: m_value
    fault,       \* "none", or the undefined behaviour the program has run into
    uafReads,    \* released targets that were read afterwards
    lastCall,    \* the last invocation: wrapper, arguments, calls made, result
    fnOp,        \* the last operation on a wrapper
    bound,       \* reference: what each wrapper was bound to, carried along by copies
    copyOf       \* reference: the wrapper each one was copy-constructed from, "none"
                 \* once either of the two has been assigned to

fnVars == <<wrappers, targets, objects, fault, uafReads, lastCall, fnOp, bound, copyOf>>

vars == <<vecVars, fnVars>>

\* ------------------------------------------------------------------ memory
RawSlot == [val |-> Junk, st |-> "raw"]

\* ::operator new(n * sizeof(T)): a block of n raw slots
NewBlock(n) == [slots |-> [i \in 1..n |-> RawSlot], freed |-> FALSE]

\* T::operator= on slot i of a block: the slot holds the value afterwards.
\* No constructor runs: a raw slot becomes "assigned", never "constructed".
AssignSlot(blk, i, v) ==
    IF i + 1 \in DOMAIN blk.slots
    THEN [blk EXCEPT !.slots[i + 1] = [val |-> v, st |-> "assigned"]]
    ELSE blk

\* T::~T() on slot i of a block: the slot's content is indeterminate afterwards.
\* A call on an index outside the block touches no slot of it.
DestroySlot(blk, i) ==
    IF i + 1 \in DOMAIN blk.slots
    THEN [blk EXCEPT !.slots[i + 1] = [val |-> Junk, st |-> "destroyed"]]
    ELSE blk

\* delete[] p: nothing for nullptr, else the block is released.  The block
\* came from ::operator new, not new[]; what is modelled is the release of
\* its storage.
FreeBlock(h, p) ==
    IF p = 0 THEN h ELSE [h EXCEPT ![p].freed = TRUE]

\* what reading m_data[i] yields
ReadSlot(h, p, i) ==
    IF p # 0 /\ p \in DOMAIN h /\ ~h[p].freed /\ i + 1 \in DOMAIN h[p].slots
    THEN h[p].slots[i + 1].val
    ELSE Junk

\* the vector's fields as one record, threaded through the method bodies
Self == [heap |-> heap, m_data |-> m_data, m_size |-> m_size,
         m_capacity |-> m_capacity, dtorLog |-> <<>>]

\* the element counts delete[] m_data can take for a block that came from
\* ::operator new and carries no count of its own: 0 when T has no destructor
\* to run, else whatever lies in front of the block
ArrayCounts == 0..MaxCount

\* the fields of a vector together with the count its next delete[] takes
Deleting(s, k) ==
    [heap |-> s.heap, m_data |-> s.m_data, m_size |-> s.m_size,
     m_capacity |-> s.m_capacity, dtorLog |-> s.dtorLog, count |-> k]

\* the destructor calls of delete[] m_data: none for nullptr, else one for
\* each of the count elements, last to first
DeleteArray(s) ==
    IF s.m_data = 0 THEN <<>>
    ELSE [j \in 1..s.count |-> <<s.m_data, s.count - j>>]

\* ------------------------------------------------------------------ Vector methods
\* the size the move and destroy loops of reAllocate run to
ClampedSize(s, newCapacity) ==
    IF newCapacity < s.m_size THEN newCapacity ELSE s.m_size

\* mutant of MovedBlock: the move loop is left out
MovedBlockNoMove(s, newCapacity, n) == NewBlock(newCapacity)

\* the block reAllocate fills: newBlock[i] = move(m_data[i]) for i < m_size
MovedBlock(s, newCapacity, n) ==
    [NewBlock(newCapacity) EXCEPT !.slots =
        [i \in DOMAIN @ |->
            IF i <= n
            THEN [val |-> ReadSlot(s.heap, s.m_data, i - 1), st |-> "assigned"]
            ELSE @[i]]]

\* the old block after the destroy loop: m_data[i].~T() for i < m_size
DestroyedOld(blk, n) ==
    [blk EXCEPT !.slots = [i \in DOMAIN blk.slots |->
                             IF i <= n THEN [val |-> Junk, st |-> "destroyed"]
                             ELSE blk.slots[i]]]

\* void reAllocate(size_t newCapacity)
reAllocate(s, newCapacity) ==
    LET n      == ClampedSize(s, newCapacity)
        newPtr == Len(s.heap) + 1
        old    == IF s.m_data = 0 THEN s.heap
                  ELSE [s.heap EXCEPT ![s.m_data] = DestroyedOld(@, n)]
    IN  [heap       |-> Append(FreeBlock(old, s.m_data), MovedBlock(s, newCapacity, n)),
         m_data     |-> newPtr,
         m_size     |-> n,
         m_capacity |-> newCapacity,
         dtorLog    |-> s.dtorLog \o [i \in 1..n |-> <<s.m_data, i - 1>>]
                                  \o DeleteArray(s)]

\* the test of reAllocate: if (newCapacity < m_size)
Truncates(s, newCapacity) == newCapacity < s.m_size

\* what the body of that if surfaces: it assigns m_size and holds the comment
\* "warning", no statement that reaches the caller
OnTruncate == "none"

\* mutant of GrowCapacity: the capacity asked for is half the current one
GrowCapacityHalf(c) == c \div 2

\* mutant of GrowCapacity: the capacity grows by a constant, not by half
GrowCapacityLinear(c) == c + 2

\* mutant of GrowCapacity: the constant that bootstraps from zero is 1
GrowCapacityPlusOne(c) == c + c \div 2 + 1

\* the capacity pushBack asks for when the vector is full
GrowCapacity(c) == c + c \div 2 + 2

\* mutant of NeedsGrow: the test is off by one
NeedsGrowOffByOne(s) == s.m_size > s.m_capacity

\* the test that makes pushBack re-allocate
NeedsGrow(s) == s.m_size >= s.m_capacity

\* void pushBack(const T& value) / void pushBack(T&& value)
pushBack(s, value) ==
    LET g == IF NeedsGrow(s) THEN reAllocate(s, GrowCapacity(s.m_capacity)) ELSE s
    IN  [g EXCEPT !.heap[g.m_data] = AssignSlot(@, g.m_size, value),
                  !.m_size = g.m_size + 1]

\* mutant of popBack: the capacity follows the size down
popBackShrinks(s) ==
    IF s.m_size > 0
    THEN [s EXCEPT !.m_size = s.m_size - 1,
                   !.m_capacity = s.m_size - 1,
                   !.heap[s.m_data] = DestroySlot(@, s.m_size - 1),
                   !.dtorLog = Append(s.dtorLog, <<s.m_data, s.m_size - 1>>)]
    ELSE s

\* mutant of popBack: the destructor runs before the decrement
popBackWrongSlot(s) ==
    IF s.m_size > 0
    THEN [s EXCEPT !.m_size = s.m_size - 1,
                   !.heap[s.m_data] = DestroySlot(@, s.m_size),
                   !.dtorLog = Append(s.dtorLog, <<s.m_data, s.m_size>>)]
    ELSE s

\* void popBack()
popBack(s) ==
    IF s.m_size > 0
    THEN [s EXCEPT !.m_size = s.m_size - 1,
                   !.heap[s.m_data] = DestroySlot(@, s.m_size - 1),
                   !.dtorLog = Append(s.dtorLog, <<s.m_data, s.m_size - 1>>)]
    ELSE s

\* mutant of clear: the block is released and the capacity reset
clearAndFree(s) ==
    [s EXCEPT !.heap = FreeBlock(s.heap, s.m_data),
              !.m_data = 0,
              !.m_size = 0,
              !.m_capacity = 0]

\* the slot the loop body of clear() destroys in iteration i
ClearTarget(s, i) == s.m_size

\* void clear()
clear(s) ==
    LET hit == {ClearTarget(s, i) : i \in 0..(s.m_size - 1)}
        h   == IF s.m_data = 0 THEN s.heap
               ELSE [s.heap EXCEPT ![s.m_data].slots =
                        [j \in DOMAIN @ |->
                            IF (j - 1) \in hit
                            THEN [val |-> Junk, st |-> "destroyed"]
                            ELSE @[j]]]
    IN  [s EXCEPT !.heap = h,
                  !.m_size = 0,
                  !.dtorLog = s.dtorLog \o
                              [i \in 1..s.m_size |-> <<s.m_data, ClearTarget(s, i - 1)>>]]

\* const T& operator[](size_t index) const / T& operator[](size_t index)
At(index) == ReadSlot(heap, m_data, index)

\* the test of operator[]: if (index >= m_size)
OutOfRange(s, index) == index >= s.m_size

\* what the body of that if surfaces: it holds the comment "error" and no statement
OnOutOfRange == "none"

\* operator[] as a whole: the test, then return m_data[index] on either branch
subscript(s, index) ==
    [signal |-> IF OutOfRange(s, index) THEN OnOutOfRange ELSE "none",
     ref    |-> <<s.m_data, index>>]

\* size_t getSize() const
getSize == m_size

\* const bool isEmpty() const
isEmpty == (m_size = 0)

\* the live elements as a list: operator[] at 0 .. getSize() - 1
Contents == [i \in 1..getSize |-> At(i - 1)]

\* ------------------------------------------------------------------ actions
Store(s) ==
    /\ heap' = s.heap
    /\ m_data' = s.m_data
    /\ m_size' = s.m_size
    /\ m_capacity' = s.m_capacity
    /\ dtorLog' = s.dtorLog

\* a void method or a constructor: nothing is returned, nothing surfaced
NoReturn ==
    /\ signal' = "none"
    /\ ret' = <<>>

\* Vector()
Construct ==
    /\ vstate = "none"
    /\ vstate' = "alive"
    /\ built' = "default"
    /\ lastOp' = [op |-> "Vector", arg |-> 0]
    /\ UNCHANGED <<heap, m_data, m_size, m_capacity, dtorLog, refList>>
    /\ NoReturn
    /\ UNCHANGED <<twin, vfault, fnVars>>

\* Vector(size_t initialCapacity)
ConstructCap ==
    \E n \in 0..MaxInitCap :
        /\ vstate = "none"
        /\ vstate' = "alive"
        /\ built' = "capacity"
        /\ Store(reAllocate(Self, n))
        /\ lastOp' = [op |-> "VectorCap", arg |-> n]
        /\ UNCHANGED refList
        /\ NoReturn
        /\ UNCHANGED <<twin, vfault, fnVars>>

PushBack ==
    \E v \in Values :
        /\ vstate = "alive"
        /\ m_size < MaxSize
        /\ \E k \in ArrayCounts : Store(pushBack(Deleting(Self, k), v))
        /\ lastOp' = [op |-> "pushBack", arg |-> v]
        /\ refList' = Append(refList, v)
        /\ UNCHANGED <<vstate, built>>
        /\ NoReturn
        /\ UNCHANGED <<twin, vfault, fnVars>>

\* pushBack in a run of appends to a default-constructed vector
PushBackRun ==
    \E v \in Values :
        /\ vstate = "alive"
        /\ m_size < MaxAppends
        /\ \E k \in ArrayCounts : Store(pushBack(Deleting(Self, k), v))
        /\ lastOp' = [op |-> "pushBack", arg |-> v]
        /\ refList' = Append(refList, v)
        /\ UNCHANGED <<vstate, built>>
        /\ NoReturn
        /\ UNCHANGED <<twin, vfault, fnVars>>

PopBack ==
    /\ vstate = "alive"
    /\ Store(popBack(Self))
    /\ lastOp' = [op |-> "popBack", arg |-> 0]
    /\ refList' = IF refList = <<>> THEN <<>> ELSE SubSeq(refList, 1, Len(refList) - 1)
    /\ UNCHANGED <<vstate, built>>
    /\ NoReturn
    /\ UNCHANGED <<twin, vfault, fnVars>>

Clear ==
    /\ vstate = "alive"
    /\ Store(clear(Self))
    /\ lastOp' = [op |-> "clear", arg |-> 0]
    /\ refList' = <<>>
    /\ UNCHANGED <<vstate, built>>
    /\ NoReturn
    /\ UNCHANGED <<twin, vfault, fnVars>>

\* operator[](index)
Subscript ==
    \E index \in 0..MaxIndex :
        /\ vstate = "alive"
        /\ LET r == subscript(Self, index)
           IN  /\ signal' = r.signal
               /\ ret' = r.ref
        /\ lastOp' = [op |-> "operator[]", arg |-> index]
        /\ dtorLog' = <<>>
        /\ UNCHANGED <<vstate, built, heap, m_data, m_size, m_capacity, refList>>
        /\ UNCHANGED <<twin, vfault, fnVars>>

\* reAllocate(newCapacity) called on its own, with any capacity
ReAllocate ==
    \E newCapacity \in 0..MaxInitCap :
        /\ vstate = "alive"
        /\ Len(heap) < MaxBlocks
        /\ \E k \in ArrayCounts : Store(reAllocate(Deleting(Self, k), newCapacity))
        /\ signal' = IF Truncates(Self, newCapacity) THEN OnTruncate ELSE "none"
        /\ ret' = <<>>
        /\ lastOp' = [op |-> "reAllocate", arg |-> newCapacity]
        /\ refList' = SubSeq(refList, 1, ClampedSize(Self, newCapacity))
        /\ UNCHANGED <<vstate, built>>
        /\ UNCHANGED <<twin, vfault, fnVars>>

\* ~Vector(): clear(); delete[] m_data;
Destroy ==
    /\ vstate = "alive"
    /\ vstate' = "destroyed"
    /\ \E k \in ArrayCounts :
          LET c == clear(Deleting(Self, k))
          IN  Store([c EXCEPT !.heap = FreeBlock(c.heap, c.m_data),
                              !.dtorLog = c.dtorLog \o DeleteArray(c)])
    /\ lastOp' = [op |-> "~Vector", arg |-> 0]
    /\ refList' = <<>>
    /\ UNCHANGED built
    /\ NoReturn
    /\ UNCHANGED <<twin, vfault, fnVars>>

\* ------------------------------------------------------------------ Function: client code
\* allocations with new are only issued while fewer than MaxTargets were made
MaxTargets == 3

\* Function<float(float, float)> objects and Function<float(float)> objects
Wrappers2 == {"f1", "f2"}
Wrappers1 == {"g1", "g2"}
Wrappers == Wrappers2 \cup Wrappers1

\* a wrapper is assigned or copied only from one of its own type
SameType(a, b) == (a \in Wrappers2) = (b \in Wrappers2)

\* free functions R(*)(Args...) of each signature, and methods R(C::*)(Args...)
FreeFunctions2 == {"exampleFunction", "subtract"}
FreeFunctions1 == {"exampleStaticMethod"}
Methods1 == {"exampleMethod"}

\* the argument lists the client invokes with
Args2 == {<<2, 5>>, <<5, 2>>}
Args1 == {<<4>>}

\* the values the client gives ExampleClass::m_value
MValues == {3, 6}

\* the client's functions (the header's example):
\* float exampleFunction(float value1, float value2) { return value1 * value2; }
\* static exampleStaticMethod(float value): value
\* subtract(a, b) = a - b is a second client function, one whose result tells
\* the order of its arguments
CallFree(functionPtr, args) ==
    CASE functionPtr = "exampleFunction" -> args[1] * args[2]
      [] functionPtr = "subtract" -> args[1] - args[2]
      [] OTHER -> args[1]

\* ExampleClass::exampleMethod(float value): value + m_value
CallMethod(functionPtr, object, args) == args[1] + object.m_value

\* ------------------------------------------------------------------ Callable
\* explicit FunctionCallable(functionPtr_t functionPtr)
FunctionCallable(functionPtr) ==
    [kind |-> "FunctionCallable", m_functionPtr |-> functionPtr,
     m_objectReference |-> 0, frees |-> 0]

\* mutant of MemberCallable: the object is held by value, so binding copies it
MemberCallableByValue(h, objectReference, functionPtr) ==
    [h EXCEPT !.objects = Append(@, h.objects[objectReference]),
              !.targets = Append(@,
                 [kind |-> "MemberCallable", m_functionPtr |-> functionPtr,
                  m_objectReference |-> Len(h.objects) + 1, frees |-> 0])]

\* MemberCallable(C& objectReference, functionPtr_t functionPtr): the object
\* is held by reference, no object is made
MemberCallable(h, objectReference, functionPtr) ==
    [h EXCEPT !.targets = Append(@,
        [kind |-> "MemberCallable", m_functionPtr |-> functionPtr,
         m_objectReference |-> objectReference, frees |-> 0])]

\* new FunctionCallable<R(Args...)>(functionPtr); the pointer is Len(targets)
NewFunctionCallable(h, functionPtr) ==
    [h EXCEPT !.targets = Append(@, FunctionCallable(functionPtr))]

\* Callable* FunctionCallable::copy() const
FunctionCallableCopy(h, t) == NewFunctionCallable(h, t.m_functionPtr)

\* Callable* MemberCallable::copy() const
MemberCallableCopy(h, t) == MemberCallable(h, t.m_objectReference, t.m_functionPtr)

\* virtual Callable* copy() const, dispatched on the dynamic type of *p
copy(h, p) ==
    IF h.targets[p].kind = "FunctionCallable"
    THEN FunctionCallableCopy(h, h.targets[p])
    ELSE MemberCallableCopy(h, h.targets[p])

\* the argument list back to front
Reversed(args) == [i \in 1..Len(args) |-> args[Len(args) + 1 - i]]

\* mutant of FunctionCallableCall: the arguments are passed in reverse order
FunctionCallableCallReversed(t, args) ==
    [calls  |-> << [fn |-> t.m_functionPtr, obj |-> 0, args |-> Reversed(args)] >>,
     result |-> CallFree(t.m_functionPtr, Reversed(args))]

\* R FunctionCallable::operator()(Args... args): the calls made and the result
FunctionCallableCall(t, args) ==
    [calls  |-> << [fn |-> t.m_functionPtr, obj |-> 0, args |-> args] >>,
     result |-> CallFree(t.m_functionPtr, args)]

\* R MemberCallable::operator()(Args... args)
MemberCallableCall(h, t, args) ==
    [calls  |-> << [fn |-> t.m_functionPtr, obj |-> t.m_objectReference, args |-> args] >>,
     result |-> CallMethod(t.m_functionPtr, h.objects[t.m_objectReference], args)]

\* virtual R operator()(Args... args), dispatched on the dynamic type of *p
CallableCall(h, p, args) ==
    IF h.targets[p].kind = "FunctionCallable"
    THEN FunctionCallableCall(h.targets[p], args)
    ELSE MemberCallableCall(h, h.targets[p], args)

\* delete p, through a Callable* (Callable declares no virtual destructor;
\* the callables hold only pointers and references, the storage is released)
Delete(h, p) ==
    IF p = 0 THEN h ELSE [h EXCEPT !.targets[p].frees = @ + 1]

\* a pointer to a target that has not been released
IsLive(ts, p) == p \in DOMAIN ts /\ ts[p].frees = 0

\* ------------------------------------------------------------------ Function
H == [targets |-> targets, objects |-> objects]

NoCall == [w |-> "none", args |-> <<>>, calls |-> <<>>, result |-> 0]
NoBinding == [kind |-> "none", fn |-> "none", obj |-> 0]

CanAllocate == Len(targets) < MaxTargets
Running == fault = "none"

\* mutant of CopyConstructed: the pointer is copied, not the target
CopyConstructedShallow(h, other) == [h |-> h, m_callable |-> other.m_callable]

\* Function(const Function& other) / Function(Function& other):
\* m_callable = other.m_callable->copy();
CopyConstructed(h, other) ==
    LET h2 == copy(h, other.m_callable)
    IN  [h |-> h2, m_callable |-> Len(h2.targets)]

\* R operator()(Args... args): return (*m_callable)(args...);
FunctionCall(h, self, args) == CallableCall(h, self.m_callable, args)

\* ~Function(): delete m_callable;
Destructed(h, self) == Delete(h, self.m_callable)

StoreH(h) ==
    /\ targets' = h.targets
    /\ objects' = h.objects

\* Function(R(*functionPtr)(Args...))
FnConstruct ==
    \E w \in Wrappers :
      \E f \in (IF w \in Wrappers2 THEN FreeFunctions2 ELSE FreeFunctions1) :
        /\ Running /\ CanAllocate
        /\ wrappers[w].st = "none"
        /\ LET h2 == NewFunctionCallable(H, f)
           IN  /\ StoreH(h2)
               /\ wrappers' = [wrappers EXCEPT ![w] =
                                  [st |-> "live", m_callable |-> Len(h2.targets)]]
        /\ bound' = [bound EXCEPT ![w] = [kind |-> "free", fn |-> f, obj |-> 0]]
        /\ fnOp' = [op |-> "Function", w |-> w, other |-> "none"]
        /\ lastCall' = NoCall
        /\ UNCHANGED <<fault, uafReads, copyOf>>
        /\ UNCHANGED vecVars

\* static Function bind(R(*functionPtr)(Args...)):
\* return {new FunctionCallable(functionPtr)}, through Function(Callable*)
FnBind ==
    \E w \in Wrappers :
      \E f \in (IF w \in Wrappers2 THEN FreeFunctions2 ELSE FreeFunctions1) :
        /\ Running /\ CanAllocate
        /\ wrappers[w].st = "none"
        /\ LET h2 == NewFunctionCallable(H, f)
           IN  /\ StoreH(h2)
               /\ wrappers' = [wrappers EXCEPT ![w] =
                                  [st |-> "live", m_callable |-> Len(h2.targets)]]
        /\ bound' = [bound EXCEPT ![w] = [kind |-> "free", fn |-> f, obj |-> 0]]
        /\ fnOp' = [op |-> "bind", w |-> w, other |-> "none"]
        /\ lastCall' = NoCall
        /\ UNCHANGED <<fault, uafReads, copyOf>>
        /\ UNCHANGED vecVars

\* template<class C> static Function bind(C& objectRef, R(C::*functionPtr)(Args...)):
\* return {new MemberCallable(objectRef, functionPtr)}, through Function(Callable*)
FnBindMember ==
    \E w \in Wrappers1 :
      \E o \in DOMAIN objects :
        \E f \in Methods1 :
          /\ Running /\ CanAllocate
          /\ wrappers[w].st = "none"
          /\ LET h2 == MemberCallable(H, o, f)
             IN  /\ StoreH(h2)
                 /\ wrappers' = [wrappers EXCEPT ![w] =
                                    [st |-> "live", m_callable |-> Len(h2.targets)]]
          /\ bound' = [bound EXCEPT ![w] = [kind |-> "member", fn |-> f, obj |-> o]]
          /\ fnOp' = [op |-> "bindMember", w |-> w, other |-> "none"]
          /\ lastCall' = NoCall
          /\ UNCHANGED <<fault, uafReads, copyOf>>
          /\ UNCHANGED vecVars

\* Function(const Function& other)
FnCopy ==
    \E w \in Wrappers :
      \E other \in Wrappers :
        /\ Running /\ CanAllocate
        /\ SameType(w, other)
        /\ wrappers[w].st = "none"
        /\ wrappers[other].st = "live"
        /\ LET c == CopyConstructed(H, wrappers[other])
           IN  /\ StoreH(c.h)
               /\ wrappers' = [wrappers EXCEPT ![w] =
                                  [st |-> "live", m_callable |-> c.m_callable]]
        /\ bound' = [bound EXCEPT ![w] = bound[other]]
        /\ fnOp' = [op |-> "copy", w |-> w, other |-> other]
        /\ lastCall' = NoCall
        /\ copyOf' = [copyOf EXCEPT ![w] = other]
        /\ UNCHANGED <<fault, uafReads>>
        /\ UNCHANGED vecVars

\* Function& operator=(const Function& other) / operator=(Function& other),
\* first statement: if (m_callable != nullptr) { delete m_callable; }
Released(h, self) ==
    IF self.m_callable # 0 THEN Delete(h, self.m_callable) ELSE h

\* operator=, second statement: m_callable = other.m_callable->copy();
\* `other` is read after the delete: in a = a it points to the released target
AssignedCopy(h, other) ==
    LET h2 == copy(h, other.m_callable)
    IN  [h |-> h2, m_callable |-> Len(h2.targets)]

\* operator= has no return statement: flowing off its end is undefined, the
\* call either comes back to the caller or does not
AssignReturns == {"none", "noReturn"}

\* a = b.  When a and b are the same object the target copy() is called on
\* has been released: the virtual call either still finds the object's bytes
\* intact and duplicates them, or faults.
FnAssign ==
    \E a \in Wrappers :
      \E b \in Wrappers :
        /\ Running /\ CanAllocate
        /\ SameType(a, b)
        /\ wrappers[a].st = "live"
        /\ wrappers[b].st = "live"
        /\ LET h1    == Released(H, wrappers[a])
               src   == wrappers[b].m_callable
               stale == ~IsLive(h1.targets, src)
               c     == AssignedCopy(h1, wrappers[b])
           IN  /\ uafReads' = IF stale THEN uafReads \cup {src} ELSE uafReads
               /\ \/ /\ StoreH(c.h)
                     /\ wrappers' = [wrappers EXCEPT ![a].m_callable = c.m_callable]
                     /\ \E r \in AssignReturns : fault' = r
                  \/ /\ stale
                     /\ StoreH(h1)
                     /\ wrappers' = wrappers
                     /\ fault' = "useAfterFree"
        /\ bound' = [bound EXCEPT ![a] = bound[b]]
        /\ copyOf' = [u \in Wrappers |->
                        IF u = a \/ copyOf[u] = a THEN "none" ELSE copyOf[u]]
        /\ fnOp' = [op |-> "assign", w |-> a, other |-> b]
        /\ lastCall' = NoCall
        /\ UNCHANGED vecVars

\* ~Function()
FnDestroy ==
    \E w \in Wrappers :
        /\ Running
        /\ wrappers[w].st = "live"
        /\ StoreH(Destructed(H, wrappers[w]))
        /\ wrappers' = [wrappers EXCEPT ![w].st = "destroyed"]
        /\ bound' = [bound EXCEPT ![w] = NoBinding]
        /\ fnOp' = [op |-> "~Function", w |-> w, other |-> "none"]
        /\ lastCall' = NoCall
        /\ UNCHANGED <<fault, uafReads, copyOf>>
        /\ UNCHANGED vecVars

\* R operator()(Args... args)
FnInvoke ==
    \E w \in Wrappers :
      \E args \in (IF w \in Wrappers2 THEN Args2 ELSE Args1) :
        /\ Running
        /\ wrappers[w].st = "live"
        /\ LET r == FunctionCall(H, wrappers[w], args)
           IN  lastCall' = [w |-> w, args |-> args, calls |-> r.calls, result |-> r.result]
        /\ fnOp' = [op |-> "call", w |-> w, other |-> "none"]
        /\ UNCHANGED <<wrappers, targets, objects, fault, uafReads, bound, copyOf>>
        /\ UNCHANGED vecVars

\* the client changes the state of one of its objects
SetValue ==
    \E o \in DOMAIN objects :
      \E v \in MValues :
        /\ Running
        /\ objects[o].m_value # v
        /\ objects' = [objects EXCEPT ![o].m_value = v]
        /\ fnOp' = [op |-> "setValue", w |-> "none", other |-> "none"]
        /\ lastCall' = NoCall
        /\ UNCHANGED <<wrappers, targets, fault, uafReads, bound, copyOf>>
        /\ UNCHANGED vecVars

FnInit ==
    /\ wrappers = [w \in Wrappers |-> [st |-> "none", m_callable |-> 0]]
    /\ targets = <<>>
    /\ objects = << [m_value |-> 3], [m_value |-> 3] >>
    /\ fault = "none"
    /\ uafReads = {}
    /\ lastCall = NoCall
    /\ fnOp = [op |-> "init", w |-> "none", other |-> "none"]
    /\ bound = [w \in Wrappers |-> NoBinding]
    /\ copyOf = [w \in Wrappers |-> "none"]

FnNext ==
    \/ FnConstruct
    \/ FnBind
    \/ FnBindMember
    \/ FnCopy
    \/ FnAssign
    \/ FnDestroy
    \/ FnInvoke
    \/ SetValue

\* ------------------------------------------------------------------ two Vector objects
NoTwin == [st |-> "none", m_data |-> 0, m_size |-> 0, m_capacity |-> 0, ref |-> <<>>]

Instances == {"first", "twin"}

\* the fields of either object, as the method bodies take them
SelfOf(who) ==
    IF who = "first" THEN Self
    ELSE [heap |-> heap, m_data |-> twin.m_data, m_size |-> twin.m_size,
          m_capacity |-> twin.m_capacity, dtorLog |-> <<>>]

StateOf(who) == IF who = "first" THEN vstate ELSE twin.st

RefOf(who) == IF who = "first" THEN refList ELSE twin.ref

\* the fields of either object written back, with its reference list
StoreOf(who, s, ref) ==
    /\ heap' = s.heap
    /\ dtorLog' = s.dtorLog
    /\ IF who = "first"
       THEN /\ m_data' = s.m_data
            /\ m_size' = s.m_size
            /\ m_capacity' = s.m_capacity
            /\ refList' = ref
            /\ UNCHANGED twin
       ELSE /\ twin' = [twin EXCEPT !.m_data = s.m_data, !.m_size = s.m_size,
                                    !.m_capacity = s.m_capacity, !.ref = ref]
            /\ UNCHANGED <<m_data, m_size, m_capacity, refList>>

\* Vector declares no copy constructor: the implicitly-defined one copies
\* m_data, m_size and m_capacity member by member
ImplicitCopy(s) ==
    [st |-> "alive", m_data |-> s.m_data, m_size |-> s.m_size,
     m_capacity |-> s.m_capacity]

\* m_data points to a block that has been released
Dangling(s) == s.m_data # 0 /\ s.heap[s.m_data].freed

\* an operation that touches released storage is undefined: the run stops there
Faults(who, what) ==
    /\ vfault' = what
    /\ UNCHANGED <<heap, m_data, m_size, m_capacity, dtorLog, refList, twin>>

\* Vector(const Vector&), implicitly defined
CopyConstruct ==
    /\ vfault = "none"
    /\ vstate = "alive"
    /\ twin.st = "none"
    /\ LET c == ImplicitCopy(Self)
       IN  twin' = [st |-> c.st, m_data |-> c.m_data, m_size |-> c.m_size,
                    m_capacity |-> c.m_capacity, ref |-> refList]
    /\ lastOp' = [op |-> "copy", arg |-> 0]
    /\ dtorLog' = <<>>
    /\ NoReturn
    /\ UNCHANGED <<vstate, built, heap, m_data, m_size, m_capacity, refList, vfault, fnVars>>

\* pushBack on either object
CopyPushBack ==
    \E who \in Instances :
      \E v \in Values :
        /\ vfault = "none"
        /\ StateOf(who) = "alive"
        /\ SelfOf(who).m_size < MaxCopySize
        /\ IF Dangling(SelfOf(who))
           THEN Faults(who, IF NeedsGrow(SelfOf(who)) THEN "doubleFree" ELSE "useAfterFree")
           ELSE /\ \E k \in ArrayCounts :
                      StoreOf(who, pushBack(Deleting(SelfOf(who), k), v),
                              Append(RefOf(who), v))
                /\ UNCHANGED vfault
        /\ lastOp' = [op |-> "pushBack", arg |-> v]
        /\ NoReturn
        /\ UNCHANGED <<vstate, built, fnVars>>

\* popBack on either object
CopyPopBack ==
    \E who \in Instances :
        /\ vfault = "none"
        /\ StateOf(who) = "alive"
        /\ IF Dangling(SelfOf(who)) /\ SelfOf(who).m_size > 0
           THEN Faults(who, "useAfterFree")
           ELSE /\ StoreOf(who, popBack(SelfOf(who)),
                           IF RefOf(who) = <<>> THEN <<>>
                           ELSE SubSeq(RefOf(who), 1, Len(RefOf(who)) - 1))
                /\ UNCHANGED vfault
        /\ lastOp' = [op |-> "popBack", arg |-> 0]
        /\ NoReturn
        /\ UNCHANGED <<vstate, built, fnVars>>

\* ~Vector() of either object: clear(); delete[] m_data;
CopyDestroy ==
    \E who \in Instances :
        /\ vfault = "none"
        /\ StateOf(who) = "alive"
        /\ IF Dangling(SelfOf(who))
           THEN /\ Faults(who, "doubleFree")
                /\ UNCHANGED vstate
           ELSE /\ \E k \in ArrayCounts :
                      LET c == clear(Deleting(SelfOf(who), k))
                      IN  /\ heap' = FreeBlock(c.heap, c.m_data)
                          /\ dtorLog' = c.dtorLog \o DeleteArray(c)
                /\ IF who = "first"
                   THEN /\ vstate' = "destroyed"
                        /\ m_size' = 0
                        /\ refList' = <<>>
                        /\ UNCHANGED twin
                   ELSE /\ twin' = [twin EXCEPT !.st = "destroyed", !.m_size = 0, !.ref = <<>>]
                        /\ UNCHANGED <<vstate, m_size, refList>>
                /\ UNCHANGED <<m_data, m_capacity, vfault>>
        /\ lastOp' = [op |-> "~Vector", arg |-> 0]
        /\ NoReturn
        /\ UNCHANGED <<built, fnVars>>

VecInit ==
    /\ vstate = "none"
    /\ built = "none"
    /\ heap = <<>>
    /\ m_data = 0
    /\ m_size = 0
    /\ m_capacity = 0
    /\ dtorLog = <<>>
    /\ lastOp = [op |-> "init", arg |-> 0]
    /\ refList = <<>>
    /\ signal = "none"
    /\ ret = <<>>
    /\ twin = NoTwin
    /\ vfault = "none"

Init == VecInit /\ FnInit

Next ==
    \/ Construct
    \/ ConstructCap
    \/ PushBack
    \/ PopBack
    \/ Clear
    \/ Subscript
    \/ Destroy

Spec == Init /\ [][Next]_vars

FnSpec == Init /\ [][FnNext]_vars

\* appends only, to a default-constructed vector
GrowNext ==
    \/ Construct
    \/ PushBackRun

GrowSpec == Init /\ [][GrowNext]_vars

\* the public operations, and reAllocate called with any capacity
ReallocNext ==
    \/ Construct
    \/ ConstructCap
    \/ PushBack
    \/ ReAllocate

ReallocSpec == Init /\ [][ReallocNext]_vars

\* two Vector objects, the second copy-constructed from the first
CopyNext ==
    \/ Construct
    \/ ConstructCap
    \/ CopyConstruct
    \/ CopyPushBack
    \/ CopyPopBack
    \/ CopyDestroy

CopySpec == Init /\ [][CopyNext]_vars

\* ------------------------------------------------------------------ Vector claims
Alive == vstate = "alive"

\* C1: in every state reached from a newly constructed vector by pushBack,
\* popBack and clear, m_size <= m_capacity.
C1_SizeWithinCapacity == m_size <= m_capacity

\* C1 witness: a full vector (size = capacity = 5) right after a pushBack,
\* in its second block or a later one
C1_Witness ==
    /\ Alive
    /\ lastOp.op = "pushBack"
    /\ m_size = m_capacity
    /\ m_size = 5
    /\ Len(heap) >= 2

\* C2: the vector is the reference list: getSize() is its length and
\* operator[](i) is its i-th element for every i < getSize(), whatever
\* reallocations happened on the way.
C2_StackOrderedList ==
    Alive =>
        /\ getSize = Len(refList)
        /\ \A i \in 0..(getSize - 1) : At(i) = refList[i + 1]

\* C2 witness: five elements, not all equal, read back after the block was
\* replaced at least twice
C2_Witness ==
    /\ Alive
    /\ getSize = 5
    /\ Len(heap) >= 3
    /\ Contents = <<1, 2, 2, 1, 2>>

\* C6: pushBack on a full vector re-allocates to capacity + capacity/2 + 2
\* slots before inserting; pushBack with size < capacity re-allocates nothing
\* and keeps the capacity; a default-constructed vector has capacities
\* 0, 2, 5, 9, 15 in turn.
C6_PushStep ==
    lastOp'.op = "pushBack" =>
        /\ m_size = m_capacity =>
              /\ m_capacity' = m_capacity + (m_capacity \div 2) + 2
              /\ Len(heap') = Len(heap) + 1
              /\ m_data' = Len(heap')
              /\ Len(heap'[m_data'].slots) = m_capacity'
              /\ ~heap'[m_data'].freed
        /\ m_size < m_capacity =>
              /\ m_capacity' = m_capacity
              /\ m_data' = m_data
              /\ Len(heap') = Len(heap)
              /\ \A p \in DOMAIN heap : heap'[p].freed = heap[p].freed
        /\ m_size' = m_size + 1
        /\ ReadSlot(heap', m_data', m_size) = lastOp'.arg

C6_GrowthPolicy ==
    /\ [][C6_PushStep]_vars
    /\ [](built = "default" => m_capacity \in {0, 2, 5, 9, 15})
    /\ [](built = "default" /\ m_capacity = 9 => Len(heap) = 3)

\* C6 witness: a default-constructed vector that has grown 0 -> 2 -> 5 -> 9
C6_Witness ==
    /\ Alive
    /\ built = "default"
    /\ m_capacity = 9
    /\ Len(heap) = 3
    /\ lastOp.op = "pushBack"

\* C7: clear() leaves size 0 and isEmpty() true, keeps the capacity and the
\* storage block (nothing is released), and the pushBack that follows leaves
\* one element, the pushed value, at index 0.
C7_ClearStep ==
    /\ lastOp'.op = "clear" =>
          /\ getSize' = 0
          /\ isEmpty'
          /\ m_capacity' = m_capacity
          /\ m_data' = m_data
          /\ Len(heap') = Len(heap)
          /\ \A p \in DOMAIN heap :
                /\ heap'[p].freed = heap[p].freed
                /\ Len(heap'[p].slots) = Len(heap[p].slots)
    /\ (lastOp.op = "clear" /\ lastOp'.op = "pushBack") =>
          /\ getSize' = 1
          /\ ~isEmpty'
          /\ At(0)' = lastOp'.arg
          /\ m_data' # 0
          /\ ~heap'[m_data'].freed

C7_ClearKeepsStorage == [][C7_ClearStep]_vars

\* C7 witness: a pushBack on a vector that clear() emptied of two or more
\* elements, whose block and capacity of 5 are still in use
C7_Witness ==
    /\ Alive
    /\ lastOp.op = "pushBack"
    /\ m_size = 1
    /\ m_capacity = 5
    /\ Len(heap) = 2
    /\ heap[m_data].slots[2].st = "assigned"

\* C8: popBack on an empty vector changes nothing and runs no destructor;
\* on a non-empty vector it takes exactly one off the size, destroys the
\* element that was last and no other, and keeps the elements below it and
\* the capacity.
C8_PopStep ==
    lastOp'.op = "popBack" =>
        /\ m_size = 0 =>
              /\ m_size' = 0
              /\ UNCHANGED <<heap, m_data, m_capacity>>
              /\ dtorLog' = <<>>
        /\ m_size > 0 =>
              /\ m_size' = m_size - 1
              /\ m_capacity' = m_capacity
              /\ m_data' = m_data
              /\ dtorLog' = <<  <<m_data, m_size - 1>>  >>
              /\ heap'[m_data].slots[m_size].st = "destroyed"
              /\ \A i \in 0..(m_size - 2) : At(i)' = At(i)
              /\ Len(heap') = Len(heap)
              /\ \A p \in DOMAIN heap :
                    /\ heap'[p].freed = heap[p].freed
                    /\ DOMAIN heap'[p].slots = DOMAIN heap[p].slots
                    /\ \A j \in DOMAIN heap[p].slots :
                          (p # m_data \/ j # m_size) =>
                              heap'[p].slots[j] = heap[p].slots[j]

C8_PopBack == [][C8_PopStep]_vars

\* C8 witness: popBack has just run on an empty vector (no destructor call),
\* after an earlier popBack took the element at index 0 off the same block
C8_WitnessEmpty ==
    /\ Alive
    /\ lastOp.op = "popBack"
    /\ m_size = 0
    /\ m_capacity = 5
    /\ dtorLog = <<>>
    /\ heap[m_data].slots[1].st = "destroyed"

\* ------------------------------------------------------------------ Function claims
Live(w) == wrappers[w].st = "live"

ArgsOf(w) == IF w \in Wrappers2 THEN Args2 ELSE Args1

\* what invoking the thing a wrapper was bound to returns
Expected(b, args) ==
    IF b.kind = "free" THEN CallFree(b.fn, args)
    ELSE CallMethod(b.fn, objects[b.obj], args)

\* C3: a copy-constructed wrapper owns a newly allocated target of its own;
\* the copy and the original return the same result for the same arguments;
\* after either of the two is destroyed the other still owns a live target
\* and can be invoked.
C3_IndependentCopy ==
    \A w \in Wrappers :
        LET o == copyOf[w]
        IN  o # "none" =>
              /\ wrappers[w].m_callable # wrappers[o].m_callable
              /\ Live(w) => IsLive(targets, wrappers[w].m_callable)
              /\ Live(o) => IsLive(targets, wrappers[o].m_callable)
              /\ (Live(w) /\ Live(o)) =>
                    \A args \in ArgsOf(w) :
                        FunctionCall(H, wrappers[w], args) = FunctionCall(H, wrappers[o], args)
              /\ (lastCall.w = w /\ ~Live(o)) =>
                    lastCall.result = Expected(bound[w], lastCall.args)
              /\ (lastCall.w = o /\ ~Live(w)) =>
                    lastCall.result = Expected(bound[o], lastCall.args)

\* C3 witness: g2 was copy-constructed from g1, which was bound to
\* exampleMethod on object 1; g1 has been destroyed and g2 was then invoked
C3_Witness ==
    /\ copyOf["g2"] = "g1"
    /\ wrappers["g1"].st = "destroyed"
    /\ Live("g2")
    /\ bound["g2"] = [kind |-> "member", fn |-> "exampleMethod", obj |-> 1]
    /\ lastCall.w = "g2"
    /\ lastCall.args = <<4>>
    /\ lastCall.result = 7

\* C4: a = b releases a's old target exactly once and makes a own a fresh
\* duplicate of b's target, leaving b unchanged; in a = a no target is freed
\* twice, no released target is read or duplicated, none is leaked, and the
\* wrapper still owns a live target that dispatches as before.
C4_AssignStep ==
    fnOp'.op = "assign" =>
        LET a   == fnOp'.w
            b   == fnOp'.other
            old == wrappers[a].m_callable
            src == wrappers[b].m_callable
            new == wrappers'[a].m_callable
        IN  /\ targets'[old].frees = 1
            /\ \A p \in DOMAIN targets' : targets'[p].frees <= 1
            /\ uafReads' = uafReads
            /\ fault' # "useAfterFree"
            /\ new \notin DOMAIN targets
            /\ IsLive(targets', new)
            /\ targets'[new].kind = targets[src].kind
            /\ targets'[new].m_functionPtr = targets[src].m_functionPtr
            /\ targets'[new].m_objectReference = targets[src].m_objectReference
            /\ (a # b) =>
                  /\ wrappers'[b] = wrappers[b]
                  /\ targets'[src] = targets[src]
            /\ \A p \in DOMAIN targets' :
                  targets'[p].frees = 0 =>
                      \E u \in Wrappers :
                          wrappers'[u].st = "live" /\ wrappers'[u].m_callable = p

C4_Assignment == [][C4_AssignStep]_vars

\* C5: every live wrapper owns one live target, no target is owned by two
\* live wrappers, no target is released twice, and every target that has not
\* been released is owned by a live wrapper.
C5_ExclusiveOwnership ==
    /\ \A w \in Wrappers : Live(w) => IsLive(targets, wrappers[w].m_callable)
    /\ \A w \in Wrappers : \A u \in Wrappers :
          (Live(w) /\ Live(u) /\ w # u) =>
              wrappers[w].m_callable # wrappers[u].m_callable
    /\ \A p \in DOMAIN targets : targets[p].frees <= 1
    /\ \A p \in DOMAIN targets :
          targets[p].frees = 0 =>
              \E w \in Wrappers : Live(w) /\ wrappers[w].m_callable = p

\* C9: invoking a wrapper whose target is a free function (bound, constructed,
\* copied or assigned) calls that function once, with the arguments in order,
\* and returns its result: exampleFunction (a * b) with (2, 5) returns 10.
C9_FreeFunctionCall ==
    (lastCall.w # "none" /\ bound[lastCall.w].kind = "free") =>
        LET b == bound[lastCall.w]
        IN  /\ lastCall.calls = << [fn |-> b.fn, obj |-> 0, args |-> lastCall.args] >>
            /\ lastCall.result = CallFree(b.fn, lastCall.args)
            /\ (b.fn = "exampleFunction" /\ lastCall.args = <<2, 5>>) => lastCall.result = 10
            /\ (b.fn = "subtract" /\ lastCall.args = <<2, 5>>) => lastCall.result = -3
            /\ (b.fn = "subtract" /\ lastCall.args = <<5, 2>>) => lastCall.result = 3

\* C9 witness: f2, copy-constructed from f1 which was bound to
\* exampleFunction, invoked with (2, 5), returned 10
C9_Witness ==
    /\ copyOf["f2"] = "f1"
    /\ bound["f2"] = [kind |-> "free", fn |-> "exampleFunction", obj |-> 0]
    /\ lastCall.w = "f2"
    /\ lastCall.args = <<2, 5>>
    /\ lastCall.result = 10

\* C10: a wrapper bound to (object, method) refers to that object: its target
\* and the target of every copy hold a reference to it, every invocation runs
\* the method on it and reflects its m_value at the time of the call (m_value
\* 3, argument 4: 7), and no operation on a wrapper makes, copies or destroys
\* an object.
C10_BoundState ==
    /\ \A w \in Wrappers :
          (Live(w) /\ Running /\ bound[w].kind = "member") =>
              /\ targets[wrappers[w].m_callable].kind = "MemberCallable"
              /\ targets[wrappers[w].m_callable].m_objectReference = bound[w].obj
    /\ (lastCall.w # "none" /\ bound[lastCall.w].kind = "member") =>
          LET b == bound[lastCall.w]
          IN  /\ lastCall.calls = << [fn |-> b.fn, obj |-> b.obj, args |-> lastCall.args] >>
              /\ lastCall.result = objects[b.obj].m_value + lastCall.args[1]
              /\ (objects[b.obj].m_value = 3 /\ lastCall.args = <<4>>) => lastCall.result = 7

C10_WrapperStep ==
    fnOp'.op \in {"Function", "bind", "bindMember", "copy", "assign", "~Function", "call"} =>
        objects' = objects

C10_BoundMethod == [][C10_WrapperStep]_vars /\ []C10_BoundState

\* C10 witness: g2, copy-constructed from g1 bound to exampleMethod on object
\* 2, invoked with 4 after the client set that object's m_value to 6 and left
\* object 1 at 3: the result is 10
C10_Witness ==
    /\ copyOf["g2"] = "g1"
    /\ bound["g2"] = [kind |-> "member", fn |-> "exampleMethod", obj |-> 2]
    /\ objects[1].m_value = 3
    /\ objects[2].m_value = 6
    /\ lastCall.w = "g2"
    /\ lastCall.args = <<4>>
    /\ lastCall.result = 10

\* C11: operator[] with index >= size signals an error and returns no
\* reference to a slot outside the live range [0, size).
C11_CheckedAccess ==
    (lastOp.op = "operator[]" /\ lastOp.arg >= m_size) =>
        /\ signal # "none"
        /\ ret = <<>>

\* the elements of either object: operator[] at 0 .. getSize() - 1
ContentsOf(who) ==
    [i \in 1..SelfOf(who).m_size |-> ReadSlot(heap, SelfOf(who).m_data, i - 1)]

\* C12: a copy of a vector owns a block of its own holding equal elements:
\* no block is owned by two objects, operations on one object never change
\* the other's elements, and no block is released twice.
C12_DeepCopy ==
    /\ (vstate = "alive" /\ twin.st = "alive" /\ m_data # 0) => twin.m_data # m_data
    /\ \A who \in Instances :
          StateOf(who) = "alive" => ContentsOf(who) = RefOf(who)
    /\ vfault = "none"

\* C13: reAllocate with newCapacity below the live element count surfaces an
\* error or warning to the caller, and the elements at indices >= newCapacity
\* are destroyed before their block is released.
C13_ReallocStep ==
    (lastOp'.op = "reAllocate" /\ lastOp'.arg < m_size) =>
        /\ signal' # "none"
        /\ \A i \in lastOp'.arg..(m_size - 1) :
              \E k \in DOMAIN dtorLog' : dtorLog'[k] = <<m_data, i>>

C13_TruncationPolicy == [][C13_ReallocStep]_vars

\* the capacities a default-constructed vector passes through, as the claim lists them
GrowthTerms == {0, 2, 5, 9, 15, 24}

\* the blocks allocated so far: appends to a default-constructed vector
\* allocate only by re-allocating
Reallocations == Len(heap)

C14_Count ==
    Alive =>
        /\ Reallocations = Cardinality({c \in GrowthTerms : c < m_size})
        /\ 2 ^ Reallocations <= 2 * (m_size + 1) * (m_size + 1)

C14_Step ==
    Len(heap') > Len(heap) =>
        /\ lastOp'.op = "pushBack"
        /\ m_size = m_capacity
        /\ m_capacity' = m_capacity + m_capacity \div 2 + 2
        /\ Len(heap') = Len(heap) + 1

\* C14: n appends to a default-constructed vector re-allocate once for each
\* term of 0, 2, 5, 9, 15, 24 below n, which is logarithmic in n; a
\* re-allocation happens only in a pushBack at size = capacity and takes the
\* capacity from c to c + c / 2 + 2.
C14_AmortizedGrowth == [](C14_Count) /\ [][C14_Step]_vars

C14_Witness == Alive /\ m_size = 16 /\ Reallocations = 5 /\ m_capacity = 24

\* a step that re-allocates a vector that has a block
C15_Reallocates ==
    /\ lastOp'.op = "pushBack"
    /\ m_data # 0
    /\ m_data' # m_data

C15_ReallocStep ==
    C15_Reallocates =>
        /\ \A i \in 0..(m_size - 1) :
              ReadSlot(heap', m_data', i) = ReadSlot(heap, m_data, i)
        /\ dtorLog' = [i \in 1..m_size |-> <<m_data, i - 1>>]
        /\ heap'[m_data].freed

\* C15: a re-allocation moves every live element of the old block to the same
\* index of the new one, destroys each of them once in ascending order, and
\* releases the old block with no further destructor call: none runs twice
\* on a slot, none on a slot at index >= size.
C15_ReallocDiscipline == [][C15_ReallocStep]_vars

\* the lifetime state of slot i of the vector's block
SlotState(i) == heap[m_data].slots[i + 1].st

C16_LiveSlots ==
    \A i \in 0..(m_size - 1) : SlotState(i) = "constructed"

C16_SpareSlots ==
    \A i \in m_size..(m_capacity - 1) : SlotState(i) \in {"raw", "destroyed"}

\* C16: every slot below size holds an element that was constructed in that
\* slot, and every slot in [size, capacity) is uninitialized memory holding
\* no object.
C16_SlotLifetime ==
    (Alive /\ m_data # 0) => (C16_LiveSlots /\ C16_SpareSlots)

\* the first n destructor calls of the step: those of the loop of clear()
C17_ClearCalls == SubSeq(dtorLog', 1, m_size)

C17_ClearStep ==
    lastOp'.op \in {"clear", "~Vector"} =>
        /\ Len(dtorLog') >= m_size
        /\ lastOp'.op = "clear" => Len(dtorLog') = m_size
        /\ {C17_ClearCalls[k] : k \in 1..m_size} = {<<m_data, i>> : i \in 0..(m_size - 1)}

\* C17: clear() on a vector of size n runs the destructor once on each of
\* the slots 0..n-1 and on no other slot, not on slot n; so does the clear()
\* the destructor of the vector performs before it frees the block.
C17_ClearDestroysEach == [][C17_ClearStep]_vars

\* a step in which reAllocate ran: it allocates one block per call, and
\* m_capacity' is the newCapacity it was called with
C18_ReAllocateCalled == Len(heap') > Len(heap)

C18_Step ==
    C18_ReAllocateCalled =>
        /\ lastOp'.op \in {"VectorCap", "pushBack"}
        /\ m_capacity' >= m_size
        /\ lastOp'.op = "pushBack" => m_capacity' > m_size
        /\ ~Truncates(Self, m_capacity')
        /\ ClampedSize(Self, m_capacity') = m_size
        /\ m_size' >= m_size
        /\ \A i \in 0..(m_size - 1) :
              ReadSlot(heap', m_data', i) = ReadSlot(heap, m_data, i)

\* C18: the constructors, pushBack, popBack and clear call reAllocate only
\* with newCapacity >= size, with newCapacity > size from pushBack: the
\* clamping branch is never taken and no re-allocation lowers the size or
\* loses an element.
C18_NoTruncation == [][C18_Step]_vars

C18_Witness ==
    /\ Alive
    /\ lastOp.op = "pushBack"
    /\ built = "default"
    /\ m_size = 3
    /\ m_capacity = 5
    /\ Len(heap) = 2
    /\ heap[1].freed

C19_Step ==
    /\ m_capacity' >= m_capacity
    /\ lastOp'.op \in {"popBack", "clear"} =>
          /\ m_capacity' = m_capacity
          /\ m_data' = m_data
    /\ (lastOp'.op = "pushBack" /\ m_capacity' # m_capacity) =>
          /\ m_capacity' > m_capacity
          /\ m_data' # m_data
    /\ m_data' # m_data =>
          \/ lastOp'.op = "pushBack" /\ m_size = m_capacity
          \/ lastOp'.op = "VectorCap" /\ vstate = "none"

\* C19: the capacity of a vector never decreases: popBack and clear leave
\* it and the block as they are, pushBack leaves it or raises it, and the
\* block is replaced only by a pushBack at size = capacity or by the
\* constructor that takes an initial capacity.
C19_CapacityMonotone == [][C19_Step]_vars

C19_Witness ==
    /\ Alive
    /\ lastOp.op = "popBack"
    /\ m_capacity = 5
    /\ m_size = 0
    /\ Len(heap) = 2

====
